---- MODULE Spec2Model ----
(***************************************************************************)
(* Model of src/src/algorithms.py: the five scheduling entry points of the *)
(* scheduling API and the module-level list example_schedule they return.  *)
(*                                                                         *)
(* A Python list is an object with identity: the value an entry point      *)
(* returns holds a REFERENCE to a list, not a copy of it.  The model keeps *)
(* the contents of the one list object of the module in the variable       *)
(* example_schedule, and a returned value names the list it holds by a     *)
(* reference.  Every call is logged with the value returned and with the   *)
(* contents of the returned schedule at the moment of the return.          *)
(***************************************************************************)
EXTENDS Integers, Sequences, FiniteSets, TLC

VARIABLES
    example_schedule,   \* contents of the module-level list object
    calls,              \* log of the entry-point calls made so far
    modified            \* indices of the results whose schedule list the caller modified

vars == <<example_schedule, calls, modified>>

\* Bounds of the exploration.
MaxCalls == 3
MaxMods == 1

(***************************************************************************)
(* Inputs.  application_data carries the jobs and the messages (dependency *)
(* edges); platform_data carries the nodes.                                *)
(***************************************************************************)
Job(id, wcet, deadline) == [id |-> id, execution_time |-> wcet, deadline |-> deadline]

Msg(sender, receiver) == [sender |-> sender, receiver |-> receiver]

\* three independent jobs, execution times {10,20,30}, deadlines {15,100,50}
EdfScenario ==
    [jobs |-> <<Job(0, 10, 15), Job(1, 20, 100), Job(2, 30, 50)>>,
     messages |-> <<>>]

\* jobs A, B, C with edges A->B, B->C, C->A
CycleScenario ==
    [jobs |-> <<Job(0, 10, 100), Job(1, 10, 100), Job(2, 10, 100)>>,
     messages |-> <<Msg(0, 1), Msg(1, 2), Msg(2, 0)>>]

\* one job with execution time 50 and deadline 30
MissScenario ==
    [jobs |-> <<Job(0, 50, 30)>>,
     messages |-> <<>>]

\* two jobs A, B with one edge A->B
EdgeScenario ==
    [jobs |-> <<Job(0, 20, 250), Job(3, 20, 256)>>,
     messages |-> <<Msg(0, 3)>>]

Applications == {EdfScenario, CycleScenario, MissScenario, EdgeScenario}

OneNode == [nodes |-> {0}]

TwoNodes == [nodes |-> {0, 1}]

Platforms == {OneNode, TwoNodes}

\* the single-node entry points take no platform_data
NoPlatform == [nodes |-> {}]

(***************************************************************************)
(* The module-level list (algorithms.py lines 19-48).                      *)
(***************************************************************************)
Entry(task, node, endt, deadline, start) ==
    [task_id |-> task, node_id |-> node, end_time |-> endt,
     deadline |-> deadline, start_time |-> start]

\* mutant: the second entry starts before the first one ends
example_schedule_overlapping ==
    <<Entry(3, 0, 20, 256, 0),
      Entry(2, 0, 40, 300, 10),
      Entry(1, 0, 60, 250, 40),
      Entry(0, 0, 80, 250, 60)>>

\* mutant: the third entry ends after its deadline
example_schedule_late ==
    <<Entry(3, 0, 20, 256, 0),
      Entry(2, 0, 40, 300, 20),
      Entry(1, 0, 60, 50, 40),
      Entry(0, 0, 80, 250, 60)>>

example_schedule_literal ==
    <<Entry(3, 0, 20, 256, 0),
      Entry(2, 0, 40, 300, 20),
      Entry(1, 0, 60, 250, 40),
      Entry(0, 0, 80, 250, 60)>>

\* the reference to the module-level list object
ExampleRef == "example_schedule"

\* the contents of the list a reference names
Deref(ref) == CASE ref = ExampleRef -> example_schedule

(***************************************************************************)
(* The entry points.  Each is a single return statement: it returns        *)
(* normally, with a new dict that holds the module-level list itself, a    *)
(* new empty list and the name.  The arguments are not read.               *)
(***************************************************************************)
Returned(value) == [outcome |-> "return", value |-> value]

ldf_single_node(application_data) ==
    Returned([schedule |-> ExampleRef, missed_deadlines |-> <<>>,
              name |-> "LDF Single-node"])

\* mutant: the miss list is kept across calls (one id added per earlier call)
edf_single_node_stateful(application_data) ==
    Returned([schedule |-> ExampleRef,
              missed_deadlines |-> [i \in 1..Len(calls) |-> 0],
              name |-> "EDF Single-node"])

edf_single_node(application_data) ==
    Returned([schedule |-> ExampleRef, missed_deadlines |-> <<>>,
              name |-> "EDF Single-node"])

ll_multinode_no_delay(application_data, platform_data) ==
    Returned([schedule |-> ExampleRef, missed_deadlines |-> <<>>,
              name |-> "LL(without delay)"])

ldf_multinode_no_delay(application_data, platform_data) ==
    Returned([schedule |-> ExampleRef, missed_deadlines |-> <<>>,
              name |-> "LDF Multinode(without delay)"])

edf_multinode_no_delay(application_data, platform_data) ==
    Returned([schedule |-> ExampleRef, missed_deadlines |-> <<>>,
              name |-> "EDF Multinode(without delay)"])

(***************************************************************************)
(* State machine: the caller calls the entry points in any order.          *)
(***************************************************************************)
\* what the caller holds after a call: the outcome, the value returned and
\* the contents of the returned schedule list at the moment of the return
CallRecord(fn, application_data, platform_data, res) ==
    [fn |-> fn, application_data |-> application_data,
     platform_data |-> platform_data,
     outcome |-> res.outcome, value |-> res.value,
     schedule |-> Deref(res.value.schedule)]

\* the log after a call: a call assigns no module state
Log(fn, application_data, platform_data, res) ==
    Append(calls, CallRecord(fn, application_data, platform_data, res))

Init ==
    /\ example_schedule = example_schedule_literal
    /\ calls = <<>>
    /\ modified = {}

CallLdfSingleNode ==
    /\ Len(calls) < MaxCalls
    /\ \E a \in Applications :
           calls' = Log("ldf_single_node", a, NoPlatform, ldf_single_node(a))
    /\ UNCHANGED <<example_schedule, modified>>

CallEdfSingleNode ==
    /\ Len(calls) < MaxCalls
    /\ \E a \in Applications :
           calls' = Log("edf_single_node", a, NoPlatform, edf_single_node(a))
    /\ UNCHANGED <<example_schedule, modified>>

CallLlMultinodeNoDelay ==
    /\ Len(calls) < MaxCalls
    /\ \E a \in Applications, p \in Platforms :
           calls' = Log("ll_multinode_no_delay", a, p, ll_multinode_no_delay(a, p))
    /\ UNCHANGED <<example_schedule, modified>>

CallLdfMultinodeNoDelay ==
    /\ Len(calls) < MaxCalls
    /\ \E a \in Applications, p \in Platforms :
           calls' = Log("ldf_multinode_no_delay", a, p, ldf_multinode_no_delay(a, p))
    /\ UNCHANGED <<example_schedule, modified>>

CallEdfMultinodeNoDelay ==
    /\ Len(calls) < MaxCalls
    /\ \E a \in Applications, p \in Platforms :
           calls' = Log("edf_multinode_no_delay", a, p, edf_multinode_no_delay(a, p))
    /\ UNCHANGED <<example_schedule, modified>>

Next ==
    \/ CallLdfSingleNode
    \/ CallEdfSingleNode
    \/ CallLlMultinodeNoDelay
    \/ CallLdfMultinodeNoDelay
    \/ CallEdfMultinodeNoDelay

Spec == Init /\ [][Next]_vars

(***************************************************************************)
(* The caller.  A returned value holds a list object; the caller can       *)
(* append to that list or assign to a field of one of its entries.         *)
(***************************************************************************)
\* the entry the caller appends
ExtraEntry == Entry(7, 0, 30, 25, 10)

\* the results in the caller's hands
Results == {k \in DOMAIN calls : calls[k].outcome = "return"}

\* result["schedule"].append(entry), on the k-th result
CallerAppend ==
    \E k \in Results :
        /\ Cardinality(modified) < MaxMods
        /\ k \notin modified
        /\ calls[k].value.schedule = ExampleRef
        /\ example_schedule' = Append(Deref(calls[k].value.schedule), ExtraEntry)
        /\ modified' = modified \cup {k}
        /\ UNCHANGED calls

\* result["schedule"][i]["end_time"] = t, on the k-th result
CallerEdit ==
    \E k \in Results :
        /\ Cardinality(modified) < MaxMods
        /\ k \notin modified
        /\ calls[k].value.schedule = ExampleRef
        /\ \E i \in DOMAIN Deref(calls[k].value.schedule) :
               example_schedule' =
                   [Deref(calls[k].value.schedule) EXCEPT ![i].end_time = 400]
        /\ modified' = modified \cup {k}
        /\ UNCHANGED calls

NextCaller ==
    \/ CallLdfSingleNode
    \/ CallEdfSingleNode
    \/ CallLlMultinodeNoDelay
    \/ CallLdfMultinodeNoDelay
    \/ CallEdfMultinodeNoDelay
    \/ CallerAppend
    \/ CallerEdit

\* entry-point calls interleaved with a caller that modifies returned lists
SpecCaller == Init /\ [][NextCaller]_vars

(***************************************************************************)
(* Vocabulary of the properties.                                           *)
(***************************************************************************)
Range(seq) == {seq[i] : i \in DOMAIN seq}

JobIds(application_data) == {j.id : j \in Range(application_data.jobs)}

\* the jobs a message chain leads to, starting from the set S of jobs
RECURSIVE ReachableFrom(_, _)
ReachableFrom(application_data, S) ==
    LET T == S \cup {m.receiver : m \in {x \in Range(application_data.messages) : x.sender \in S}}
    IN  IF T = S THEN S ELSE ReachableFrom(application_data, T)

Successors(application_data, id) ==
    {m.receiver : m \in {x \in Range(application_data.messages) : x.sender = id}}

HasCycle(application_data) ==
    \E id \in JobIds(application_data) :
        id \in ReachableFrom(application_data, Successors(application_data, id))

SingleNodeEntryPoints == {"ldf_single_node", "edf_single_node"}

MultinodeNoDelayEntryPoints ==
    {"ll_multinode_no_delay", "ldf_multinode_no_delay", "edf_multinode_no_delay"}

\* deadline, start and end of the entries of a schedule, in order
Timeline(schedule) ==
    [i \in DOMAIN schedule |->
        <<schedule[i].deadline, schedule[i].start_time, schedule[i].end_time>>]

SameCall(c, d) ==
    /\ c.fn = d.fn
    /\ c.application_data = d.application_data
    /\ c.platform_data = d.platform_data

SameResult(c, d) ==
    /\ c.outcome = d.outcome
    /\ c.value = d.value
    /\ c.schedule = d.schedule

(***************************************************************************)
(* Properties.                                                             *)
(***************************************************************************)

\* C1: edf_single_node on three independent jobs with execution times
\* {10,20,30} and deadlines {15,100,50} returns, in order, the deadline-15
\* job at [0,10], the deadline-50 job at [10,40] and the deadline-100 job at
\* [40,70], and an empty missed_deadlines.
C1_EdfScenarioTimeline ==
    \A k \in DOMAIN calls :
        (calls[k].fn = "edf_single_node" /\ calls[k].application_data = EdfScenario)
        => /\ calls[k].outcome = "return"
           /\ Timeline(calls[k].schedule)
                  = << <<15, 0, 10>>, <<50, 10, 40>>, <<100, 40, 70>> >>
           /\ calls[k].value.missed_deadlines = <<>>

\* C2: for every entry point and every acyclic input, for every message
\* producer -> consumer the consumer's entry starts no earlier than the
\* producer's entry ends.
C2_PrecedenceRespected ==
    \A k \in Results :
        ~HasCycle(calls[k].application_data)
        => \A m \in Range(calls[k].application_data.messages) :
               \A p, c \in Range(calls[k].schedule) :
                   (p.task_id = m.sender /\ c.task_id = m.receiver)
                   => c.start_time >= p.end_time

\* C3: for every entry point, an input whose edges form a cycle ends in
\* CyclicDependencyError and no schedule is returned.
C3_CycleRejected ==
    \A k \in DOMAIN calls :
        HasCycle(calls[k].application_data)
        => /\ calls[k].outcome = "CyclicDependencyError"
           /\ k \notin Results

\* C4: for every entry point, a job of the input with execution time 50 and
\* deadline 30 is in the returned missed_deadlines.
C4_LateJobReported ==
    \A k \in DOMAIN calls :
        \A j \in Range(calls[k].application_data.jobs) :
            (j.execution_time = 50 /\ j.deadline = 30)
            => /\ calls[k].outcome = "return"
               /\ j.id \in Range(calls[k].value.missed_deadlines)

\* C5: for every entry point and every input, the returned schedule has
\* exactly one entry for each job of the input and no entry of another task.
C5_OneEntryPerJob ==
    \A k \in Results :
        /\ {e.task_id : e \in Range(calls[k].schedule)} = JobIds(calls[k].application_data)
        /\ \A i, j \in DOMAIN calls[k].schedule :
               calls[k].schedule[i].task_id = calls[k].schedule[j].task_id => i = j

\* C6: for ldf_single_node and edf_single_node, in any sequence of calls,
\* the entries of the returned schedule that share a node are pairwise
\* non-overlapping and every entry has start_time < end_time.
C6_SingleNodeNoOverlap ==
    \A k \in Results :
        calls[k].fn \in SingleNodeEntryPoints
        => /\ \A i, j \in DOMAIN calls[k].schedule :
                  (i # j /\ calls[k].schedule[i].node_id = calls[k].schedule[j].node_id)
                  => \/ calls[k].schedule[i].end_time <= calls[k].schedule[j].start_time
                     \/ calls[k].schedule[j].end_time <= calls[k].schedule[i].start_time
           /\ \A i \in DOMAIN calls[k].schedule :
                  calls[k].schedule[i].start_time < calls[k].schedule[i].end_time

\* C6 witness: both single-node entry points have returned a schedule with
\* several entries on one node.
C6_Witness ==
    \A fn \in SingleNodeEntryPoints :
        \E k \in Results :
            /\ calls[k].fn = fn
            /\ \E i, j \in DOMAIN calls[k].schedule :
                   i # j /\ calls[k].schedule[i].node_id = calls[k].schedule[j].node_id

\* C7: in any sequence of entry-point calls, two calls of the same entry
\* point with identical inputs yield identical results (same outcome, same
\* entries in the same order, same missed_deadlines, same name).
C7_Deterministic ==
    \A i, j \in DOMAIN calls :
        SameCall(calls[i], calls[j]) => SameResult(calls[i], calls[j])

\* C7 witness: the same call was made twice with a call of another entry
\* point in between.
C7_Witness ==
    \E i, j, l \in DOMAIN calls :
        /\ i < l /\ l < j
        /\ SameCall(calls[i], calls[j])
        /\ calls[l].fn # calls[i].fn
        /\ calls[i].fn = "edf_single_node"

\* C8: for the no-delay multi-node entry points, two jobs A and B with one
\* edge A->B on a platform of at least two nodes are placed on different
\* nodes and B starts exactly when A ends.
C8_EdgeAcrossNodes ==
    \A k \in DOMAIN calls :
        (/\ calls[k].fn \in MultinodeNoDelayEntryPoints
         /\ calls[k].application_data = EdgeScenario
         /\ Cardinality(calls[k].platform_data.nodes) >= 2)
        => /\ calls[k].outcome = "return"
           /\ \E a, b \in Range(calls[k].schedule) :
                  /\ a.task_id = 0 /\ b.task_id = 3
                  /\ a.node_id # b.node_id
                  /\ b.start_time = a.end_time

\* C9: run-state isolation.  When the caller modifies the schedule list of
\* one result, every other returned schedule still has the contents it was
\* returned with, and a call made afterwards returns what the same call
\* returned before.
C9_RunStateIsolation ==
    /\ \A k \in Results :
           k \notin modified => Deref(calls[k].value.schedule) = calls[k].schedule
    /\ \A i, j \in Results :
           SameCall(calls[i], calls[j]) => calls[i].schedule = calls[j].schedule

\* C10: in any sequence of calls, a task_id is in the returned
\* missed_deadlines if and only if the returned schedule has an entry of
\* that task with end_time > deadline.
C10_MissListConsistent ==
    \A k \in Results :
        \A t \in {e.task_id : e \in Range(calls[k].schedule)}
                    \cup Range(calls[k].value.missed_deadlines) :
            (t \in Range(calls[k].value.missed_deadlines))
            <=> (\E e \in Range(calls[k].schedule) :
                     e.task_id = t /\ e.end_time > e.deadline)

\* C10 witness: a call returned an empty missed_deadlines with a schedule
\* of several entries, each ending by its deadline.
C10_Witness ==
    \E k \in Results :
        /\ calls[k].value.missed_deadlines = <<>>
        /\ Len(calls[k].schedule) > 1
        /\ \A e \in Range(calls[k].schedule) : e.end_time <= e.deadline

====
